---- MODULE Spec2Model ----
(***************************************************************************)
(* Organization membership admin API (memberships.ts): the handlers        *)
(* handleCreateMembership (POST), handleUpdateMembership (PUT) and          *)
(* handleDeleteMembership (DELETE), run by concurrent requests against the  *)
(* shared stores.  Every await of a handler is one atomic step.             *)
(***************************************************************************)
EXTENDS Integers, Sequences, FiniteSets, TLC

\* ------------------------------------------------------------------ bounds
\* Requests are admitted while fewer than MaxIds row ids have been handed out.
MaxIds == 2

\* The in-flight request slots (concurrent invocations of the handlers).
Procs == {1, 2}

\* ------------------------------------------------------------- value sets
Null == "null"

\* The Role enum of @langfuse/shared (the members the handlers distinguish).
Role == {"ADMIN", "MEMBER", "NONE"}

\* Characters of the e-mail alphabet; an e-mail is a sequence of characters.
LowerChar(c) ==
  CASE c = "A" -> "a"
    [] c = "C" -> "c"
    [] OTHER -> c

\* A conversion that keeps the letter case.
toLowerCase_Identity(s) == s

\* String.prototype.toLowerCase, character by character.
toLowerCase(s) == [i \in DOMAIN s |-> LowerChar(s[i])]

\* z.string().email(): one "@" with a non-empty local part and domain.
IsEmail(s) ==
  /\ Cardinality({i \in DOMAIN s : s[i] = "@"}) = 1
  /\ s[1] # "@"
  /\ s[Len(s)] # "@"

\* ------------------------------------------------------ the static tables
\* prisma.organization, prisma.project and prisma.user are only read.
Organizations == {[id |-> "o1", name |-> "Org One"]}

Projects ==
  { [id |-> "p1", orgId |-> "o1", deletedAt |-> Null],
    [id |-> "p2", orgId |-> "o1", deletedAt |-> "t1"],
    [id |-> "p3", orgId |-> "o2", deletedAt |-> Null] }

Users ==
  { [id |-> "u1", email |-> <<"a", "@", "x">>, name |-> "Ann"] }

\* ---------------------------------------------------------- request inputs
Body(op, orgId, email, userId, role, projectId, projectRole) ==
  [ op |-> op, orgId |-> orgId, email |-> email, userId |-> userId,
    role |-> role, projectId |-> projectId, projectRole |-> projectRole ]

\* E-mails of the user u1 and of nobody, in two spellings each.
EmailInputs ==
  { <<"a", "@", "x">>, <<"A", "@", "x">>, <<"c", "@", "x">>, <<"C", "@", "x">> }

RoleInputs == {"ADMIN", "MEMBER"}

\* << projectId, projectRole >>: none, a live project of o1 (p1), a deleted
\* one (p2), another organization's (p3) and an unknown one (p9).
ProjectInputs ==
  { <<Null, Null>>, <<Null, "MEMBER">>, <<Null, "NONE">>,
    <<"p1", Null>>, <<"p1", "MEMBER">>, <<"p1", "NONE">>,
    <<"p2", "MEMBER">>, <<"p3", "MEMBER">>, <<"p9", "MEMBER">> }

\* Bodies that pass CreateMembershipSchema, for the organization o1 and for
\* an organization that does not exist (o9).
WellFormedCreateBodies ==
  { Body("create", "o1", e, Null, r, pp[1], pp[2]) :
      e \in EmailInputs, r \in RoleInputs, pp \in ProjectInputs }
  \cup
  { Body("create", "o9", e, Null, "ADMIN", pp[1], pp[2]) :
      e \in {<<"a", "@", "x">>, <<"c", "@", "x">>},
      pp \in {<<Null, Null>>, <<"p1", "MEMBER">>} }

\* Bodies CreateMembershipSchema rejects: e-mail, role, projectRole.
MalformedCreateBodies ==
  { Body("create", "o1", <<"a", "x">>, Null, "ADMIN", Null, Null),
    Body("create", "o1", <<"c", "@">>, Null, "MEMBER", "p1", "MEMBER"),
    Body("create", "o1", <<"a", "@", "x">>, Null, "BOGUS", Null, Null),
    Body("create", "o1", <<"c", "@", "x">>, Null, "ADMIN", "p1", "BOGUS") }

\* PUT bodies: a known user (u1), an unknown one (u9), a missing userId and
\* an unrecognized role.
AllUpdateBodies ==
  { Body("update", "o1", <<>>, u, r, Null, Null) :
      u \in {"u1", "u9"}, r \in RoleInputs }
  \cup
  { Body("update", "o1", <<>>, Null, "ADMIN", Null, Null),
    Body("update", "o1", <<>>, "u1", "BOGUS", Null, Null) }

\* DELETE bodies: a known user, an unknown one and a missing userId.
AllDeleteBodies ==
  { Body("delete", "o1", <<>>, u, Null, Null, Null) : u \in {"u1", "u9", Null} }

\* Slot 1 takes any body; slot 2 takes the requests that race with it for the
\* same user, e-mail and membership.
RacingBodies ==
  { Body("create", "o1", <<"a", "@", "x">>, Null, "MEMBER", "p1", "MEMBER"),
    Body("create", "o1", <<"c", "@", "x">>, Null, "ADMIN", Null, Null),
    Body("update", "o1", <<>>, "u1", "ADMIN", Null, Null),
    Body("delete", "o1", <<>>, "u1", Null, Null, Null) }

CreateBodies(p) ==
  IF p = 1
  THEN WellFormedCreateBodies \cup MalformedCreateBodies
  ELSE { b \in RacingBodies : b.op = "create" }

UpdateBodies(p) ==
  IF p = 1 THEN AllUpdateBodies ELSE { b \in RacingBodies : b.op = "update" }

DeleteBodies(p) ==
  IF p = 1 THEN AllDeleteBodies ELSE { b \in RacingBodies : b.op = "delete" }

NoRequest ==
  [ op |-> "none", orgId |-> Null, email |-> <<>>, userId |-> Null,
    role |-> Null, projectId |-> Null, projectRole |-> Null ]

\* ------------------------------------------------------------------ state
VARIABLES
  memberships,         \* prisma.organizationMembership rows
  projectMemberships,  \* prisma.projectMembership rows
  invitations,         \* prisma.membershipInvitation rows
  nextId,              \* the next row id (cuid) the store hands out
  pc,                  \* per request: the await it is suspended at
  req,                 \* per request: req.body with orgId
  user,                \* per request: the local `user`
  project,             \* per request: the local `project`
  created,             \* per request: id of orgMembership / invitation
  trace,               \* per request: its calls to the stores, to auditLog
                       \*   and to sendMembershipInvitationEmail, in order
  res,                 \* per request: the response
  after                \* per request: the slots finished before it began

vars ==
  << memberships, projectMemberships, invitations, nextId,
     pc, req, user, project, created, trace, res, after >>

stores == << memberships, projectMemberships, invitations >>

\* -------------------------------------------------------------- responses
Failure(code, msg) ==
  [status |-> code, error |-> msg, userId |-> Null, role |-> Null, invitation |-> Null]

NoResponse == Failure(0, Null)
ValidationError == Failure(400, "Invalid request body")
OrgNotFound == Failure(404, "Organization not found")
ProjectNotFound == Failure(404, "Project not found in this organization")
UserNotFound == Failure(404, "User not found")
AlreadyMember == Failure(409, "User is already a member of this organization")
InvitationExists == Failure(409, "Invitation already exists for this email")
\* An exception escaping the handler: the framework's generic failure.
Unhandled == Failure(500, "unhandled exception")

MembershipResponse(uid, role) ==
  [status |-> 200, error |-> Null, userId |-> uid, role |-> role, invitation |-> Null]

InvitationResponse(role) ==
  [status |-> 200, error |-> Null, userId |-> Null, role |-> role, invitation |-> "PENDING"]

DeletedResponse(uid) ==
  [status |-> 200, error |-> Null, userId |-> uid, role |-> Null, invitation |-> Null]

Init ==
  /\ memberships = {}
  /\ projectMemberships = {}
  /\ invitations = {}
  /\ nextId = 1
  /\ pc = [p \in Procs |-> "idle"]
  /\ req = [p \in Procs |-> NoRequest]
  /\ user = [p \in Procs |-> Null]
  /\ project = [p \in Procs |-> Null]
  /\ created = [p \in Procs |-> 0]
  /\ trace = [p \in Procs |-> <<>>]
  /\ res = [p \in Procs |-> NoResponse]
  /\ after = [p \in Procs |-> {}]

\* The schema without the role enum.
CreateMembershipSchema_AnyRole(body) ==
  /\ IsEmail(body.email)
  /\ body.projectRole # Null => body.projectRole \in Role

\* ------------------------------------------------------------- validation
CreateMembershipSchema(body) ==
  /\ IsEmail(body.email)
  /\ body.role \in Role
  /\ body.projectRole # Null => body.projectRole \in Role

MembershipSchema(body) ==
  /\ body.userId # Null
  /\ body.role \in Role

DeleteMembershipSchema(body) == body.userId # Null

\* ------------------------------------------------------------ store reads
findUserByEmail(e) ==
  IF \E u \in Users : u.email = e
  THEN (CHOOSE u \in Users : u.email = e).id
  ELSE Null

findUserById(id) ==
  IF \E u \in Users : u.id = id THEN id ELSE Null

findOrganization(id) ==
  IF \E o \in Organizations : o.id = id THEN id ELSE Null

findProject(id, orgId) ==
  IF \E q \in Projects : q.id = id /\ q.orgId = orgId /\ q.deletedAt = Null
  THEN id
  ELSE Null

\* The rows under the compound unique key orgId_userId.
orgId_userId(ms, orgId, userId) ==
  {m \in ms : m.orgId = orgId /\ m.userId = userId}

\* The membership pre-check left out.
existingOrgMembership_Skipped(ms, orgId, userId) == FALSE

existingOrgMembership(ms, orgId, userId) ==
  orgId_userId(ms, orgId, userId) # {}

\* The invitation pre-check left out.
existingInvitation_Skipped(invs, orgId, email) == FALSE

\* The rows a lookup by (email, orgId) matches.
existingInvitation(invs, orgId, email) ==
  {i \in invs : i.email = toLowerCase(email) /\ i.orgId = orgId} # {}

\* The store's uniqueness on an invitation's (orgId, email) key.
InvitationKeyTaken(invs, orgId, email) ==
  \E i \in invs : i.orgId = orgId /\ i.email = email

\* A project membership is identified by `${project.id}--${user.id}`.
ProjectMembershipKeyTaken(pms, projectId, userId) ==
  \E m \in pms : m.projectId = projectId /\ m.userId = userId

\* The membership written with a default role instead of the requested one.
create_DefaultRole(ms, id, orgId, userId, role) ==
  ms \cup {[id |-> id, orgId |-> orgId, userId |-> userId, role |-> "MEMBER"]}

\* ----------------------------------------------------------- store writes
organizationMembership_create(ms, id, orgId, userId, role) ==
  ms \cup {[id |-> id, orgId |-> orgId, userId |-> userId, role |-> role]}

\* The upsert with an empty update: an existing row keeps its role.
upsert_KeepsRole(ms, id, orgId, userId, role) ==
  IF \E m \in ms : m.orgId = orgId /\ m.userId = userId
  THEN ms
  ELSE ms \cup {[id |-> id, orgId |-> orgId, userId |-> userId, role |-> role]}

\* The upsert done as a plain insert.
upsert_AlwaysInserts(ms, id, orgId, userId, role) ==
  ms \cup {[id |-> id, orgId |-> orgId, userId |-> userId, role |-> role]}

organizationMembership_upsert(ms, id, orgId, userId, role) ==
  IF orgId_userId(ms, orgId, userId) # {}
  THEN {IF m \in orgId_userId(ms, orgId, userId) THEN [m EXCEPT !.role = role] ELSE m
          : m \in ms}
  ELSE ms \cup {[id |-> id, orgId |-> orgId, userId |-> userId, role |-> role]}

\* A removal that leaves the rows in place.
deleteMany_Nothing(ms, orgId, userId) == ms

organizationMembership_deleteMany(ms, orgId, userId) ==
  ms \ orgId_userId(ms, orgId, userId)

\* What the store does to the project memberships of removed organization
\* memberships: nothing (removal does not cascade).
projectMembership_onRemoval(pms, removed) == pms

\* The condition without its comparison to Role.NONE.
ProjectRoleRequested_NoneCounts(proj, projectRole) ==
  proj # Null /\ projectRole # Null

\* project && projectRole && projectRole !== Role.NONE
ProjectRoleRequested(proj, projectRole) ==
  proj # Null /\ projectRole # Null /\ projectRole # "NONE"

projectMembership_create(pms, userId, projectId, role, orgMembershipId) ==
  pms \cup {[userId |-> userId, projectId |-> projectId, role |-> role,
             orgMembershipId |-> orgMembershipId]}

\* The invitation written with the project whenever one was resolved.
invitation_create_ProjectKept(invs, id, orgId, email, role, proj, projectRole) ==
  invs \cup
    {[id |-> id, orgId |-> orgId,
      projectId |-> proj,
      email |-> toLowerCase(email),
      orgRole |-> role,
      projectRole |-> IF proj # Null /\ projectRole # Null /\ projectRole # "NONE"
                      THEN projectRole ELSE Null]}

\* The invitation written with the e-mail as given.
invitation_create_RawEmail(invs, id, orgId, email, role, proj, projectRole) ==
  invs \cup
    {[id |-> id, orgId |-> orgId,
      projectId |-> IF proj # Null /\ projectRole # Null /\ projectRole # "NONE"
                    THEN proj ELSE Null,
      email |-> email,
      orgRole |-> role,
      projectRole |-> IF proj # Null /\ projectRole # Null /\ projectRole # "NONE"
                      THEN projectRole ELSE Null]}

membershipInvitation_create(invs, id, orgId, email, role, proj, projectRole) ==
  invs \cup
    {[id |-> id, orgId |-> orgId,
      projectId |-> IF ProjectRoleRequested(proj, projectRole) THEN proj ELSE Null,
      email |-> toLowerCase(email),
      orgRole |-> role,
      projectRole |-> IF ProjectRoleRequested(proj, projectRole) THEN projectRole ELSE Null]}

\* --------------------------------------------------------- trace of calls
Ev(kind, what) == [kind |-> kind, what |-> what]

Called(p, kind, what) == trace' = [trace EXCEPT ![p] = Append(@, Ev(kind, what))]

\* ---------------------------------------------- handleCreateMembership flow
\* if (!org)
OrgMissing(org) == org = Null

\* The project check left out.
ProjectMissing_Skipped(projectId, proj) == FALSE

\* if (projectId && !project)
ProjectMissing(projectId, proj) == projectId # Null /\ proj = Null

\* The invitation branch without its auditLog call.
CreateNext_InvitationUnaudited(at, body, usr, proj) ==
  CASE at = "lookups" ->
         IF usr # Null THEN "findOrgMembership" ELSE "findInvitation"
    [] at = "findOrgMembership" -> "createOrgMembership"
    [] at = "createOrgMembership" -> "auditOrgMembership"
    [] at = "auditOrgMembership" ->
         IF proj # Null /\ body.projectRole # Null /\ body.projectRole # "NONE"
         THEN "createProjectMembership"
         ELSE "sendEmail"
    [] at = "createProjectMembership" -> "auditProjectMembership"
    [] at = "auditProjectMembership" -> "sendEmail"
    [] at = "findInvitation" -> "createInvitation"
    [] at = "createInvitation" -> "sendEmail"
    [] OTHER -> "done"

\* Both audit entries recorded after both writes.
CreateNext_AuditsLast(at, body, usr, proj) ==
  CASE at = "lookups" ->
         IF usr # Null THEN "findOrgMembership" ELSE "findInvitation"
    [] at = "findOrgMembership" -> "createOrgMembership"
    [] at = "createOrgMembership" ->
         IF proj # Null /\ body.projectRole # Null /\ body.projectRole # "NONE"
         THEN "createProjectMembership"
         ELSE "auditOrgMembership"
    [] at = "createProjectMembership" -> "auditOrgMembership"
    [] at = "auditOrgMembership" ->
         IF proj # Null /\ body.projectRole # Null /\ body.projectRole # "NONE"
         THEN "auditProjectMembership"
         ELSE "sendEmail"
    [] at = "auditProjectMembership" -> "sendEmail"
    [] at = "findInvitation" -> "createInvitation"
    [] at = "createInvitation" -> "auditInvitation"
    [] at = "auditInvitation" -> "sendEmail"
    [] OTHER -> "done"

\* The mail sent before the project membership is written.
CreateNext_MailFirst(at, body, usr, proj) ==
  CASE at = "lookups" ->
         IF usr # Null THEN "findOrgMembership" ELSE "findInvitation"
    [] at = "findOrgMembership" -> "createOrgMembership"
    [] at = "createOrgMembership" -> "auditOrgMembership"
    [] at = "auditOrgMembership" -> "sendEmail"
    [] at = "findInvitation" -> "createInvitation"
    [] at = "createInvitation" -> "auditInvitation"
    [] at = "auditInvitation" -> "sendEmail"
    [] OTHER -> "done"

\* The await that follows `at` when the handler neither returns nor throws.
CreateNext(at, body, usr, proj) ==
  CASE at = "lookups" ->
         IF usr # Null THEN "findOrgMembership" ELSE "findInvitation"
    [] at = "findOrgMembership" -> "createOrgMembership"
    [] at = "createOrgMembership" -> "auditOrgMembership"
    [] at = "auditOrgMembership" ->
         IF ProjectRoleRequested(proj, body.projectRole)
         THEN "createProjectMembership"
         ELSE "sendEmail"
    [] at = "createProjectMembership" -> "auditProjectMembership"
    [] at = "auditProjectMembership" -> "sendEmail"
    [] at = "findInvitation" -> "createInvitation"
    [] at = "createInvitation" -> "auditInvitation"
    [] at = "auditInvitation" -> "sendEmail"
    [] OTHER -> "done"

\* The lookups in the order organization, project, user, the user being
\* looked up only once the organization and the project are resolved.
CreateLookups_OrgFirst(body) ==
  LET usr == findUserByEmail(toLowerCase(body.email))
      org == findOrganization(body.orgId)
      proj == IF body.projectId # Null
              THEN findProject(body.projectId, body.orgId)
              ELSE Null
      orgReads == << Ev("read", "organization") >>
      projReads == IF body.projectId # Null
                   THEN Append(orgReads, Ev("read", "project"))
                   ELSE orgReads
  IN IF ~CreateMembershipSchema(body)
     THEN [user |-> Null, project |-> Null, trace |-> <<>>,
           at |-> "done", res |-> ValidationError]
     ELSE IF OrgMissing(org)
     THEN [user |-> Null, project |-> Null, trace |-> orgReads,
           at |-> "done", res |-> OrgNotFound]
     ELSE IF ProjectMissing(body.projectId, proj)
     THEN [user |-> Null, project |-> proj, trace |-> projReads,
           at |-> "done", res |-> ProjectNotFound]
     ELSE [user |-> usr, project |-> proj,
           trace |-> Append(projReads, Ev("read", "user")),
           at |-> CreateNext("lookups", body, usr, proj), res |-> NoResponse]

\* The handler from safeParse up to its branch on `user`: the user, the
\* organization and the project are looked up in this order, in tables that
\* no handler writes.  Yields the locals, the calls made and where it stands.
CreateLookups(body) ==
  LET usr == findUserByEmail(toLowerCase(body.email))
      org == findOrganization(body.orgId)
      proj == IF body.projectId # Null
              THEN findProject(body.projectId, body.orgId)
              ELSE Null
      orgReads == << Ev("read", "user"), Ev("read", "organization") >>
      allReads == IF body.projectId # Null
                  THEN Append(orgReads, Ev("read", "project"))
                  ELSE orgReads
  IN IF ~CreateMembershipSchema(body)
     THEN [user |-> Null, project |-> Null, trace |-> <<>>,
           at |-> "done", res |-> ValidationError]
     ELSE IF OrgMissing(org)
     THEN [user |-> usr, project |-> Null, trace |-> orgReads,
           at |-> "done", res |-> OrgNotFound]
     ELSE IF ProjectMissing(body.projectId, proj)
     THEN [user |-> usr, project |-> proj, trace |-> allReads,
           at |-> "done", res |-> ProjectNotFound]
     ELSE [user |-> usr, project |-> proj, trace |-> allReads,
           at |-> CreateNext("lookups", body, usr, proj), res |-> NoResponse]

\* The update run through the create path (write, audit entry, mail).
UpdateLookups_ViaCreate(body) ==
  LET usr == findUserById(body.userId) IN
    IF ~MembershipSchema(body)
    THEN [user |-> Null, project |-> Null, trace |-> <<>>,
          at |-> "done", res |-> ValidationError]
    ELSE IF usr = Null
    THEN [user |-> Null, project |-> Null, trace |-> << Ev("read", "user") >>,
          at |-> "done", res |-> UserNotFound]
    ELSE [user |-> usr, project |-> Null, trace |-> << Ev("read", "user") >>,
          at |-> "findOrgMembership", res |-> NoResponse]

\* handleUpdateMembership from safeParse up to the upsert.
UpdateLookups(body) ==
  LET usr == findUserById(body.userId) IN
    IF ~MembershipSchema(body)
    THEN [user |-> Null, project |-> Null, trace |-> <<>>,
          at |-> "done", res |-> ValidationError]
    ELSE IF usr = Null
    THEN [user |-> Null, project |-> Null, trace |-> << Ev("read", "user") >>,
          at |-> "done", res |-> UserNotFound]
    ELSE [user |-> usr, project |-> Null, trace |-> << Ev("read", "user") >>,
          at |-> "upsert", res |-> NoResponse]

\* handleDeleteMembership from safeParse up to the deleteMany.
DeleteLookups(body) ==
  IF ~DeleteMembershipSchema(body)
  THEN [user |-> Null, project |-> Null, trace |-> <<>>,
        at |-> "done", res |-> ValidationError]
  ELSE [user |-> Null, project |-> Null, trace |-> <<>>,
        at |-> "deleteMany", res |-> NoResponse]

\* ---------------------------------------------------------- request entry
Free(p) == pc[p] \in {"idle", "done"}

\* A request enters slot p with `body` and runs to its first await on a
\* table that handlers write.  `after` remembers which other slots hold a
\* request that had already finished.
Begin(p, body, l) ==
  /\ Free(p)
  /\ nextId <= MaxIds
  /\ req' = [req EXCEPT ![p] = body]
  /\ pc' = [pc EXCEPT ![p] = l.at]
  /\ res' = [res EXCEPT ![p] = l.res]
  /\ user' = [user EXCEPT ![p] = l.user]
  /\ project' = [project EXCEPT ![p] = l.project]
  /\ created' = [created EXCEPT ![p] = 0]
  /\ trace' = [trace EXCEPT ![p] = l.trace]
  /\ after' = [q \in Procs |->
                 IF q = p THEN {r \in Procs \ {p} : pc[r] = "done"}
                 ELSE after[q] \ {p}]
  /\ UNCHANGED << stores, nextId >>

Goto(p, at) == pc' = [pc EXCEPT ![p] = at]

Respond(p, response) ==
  /\ pc' = [pc EXCEPT ![p] = "done"]
  /\ res' = [res EXCEPT ![p] = response]

\* -------------------------------------------------- handleCreateMembership
CreateMembershipRequest(p) ==
  \E body \in CreateBodies(p) : Begin(p, body, CreateLookups(body))

\* prisma.organizationMembership.findFirst, then `if (existingOrgMembership)` 409.
FindOrgMembership(p) ==
  /\ pc[p] = "findOrgMembership"
  /\ Called(p, "read", "orgMembership")
  /\ IF existingOrgMembership(memberships, req[p].orgId, user[p])
     THEN Respond(p, AlreadyMember)
     ELSE /\ Goto(p, CreateNext("findOrgMembership", req[p], user[p], project[p]))
          /\ UNCHANGED res
  /\ UNCHANGED << stores, nextId, req, user, project, created, after >>

\* prisma.organizationMembership.create; the store rejects a second row under
\* orgId_userId and the rejection escapes the handler.
CreateOrgMembership(p) ==
  /\ pc[p] = "createOrgMembership"
  /\ IF orgId_userId(memberships, req[p].orgId, user[p]) # {}
     THEN /\ Called(p, "rejected", "orgMembership")
          /\ Respond(p, Unhandled)
          /\ UNCHANGED << memberships, nextId, created >>
     ELSE /\ memberships' = organizationMembership_create(
                               memberships, nextId, req[p].orgId, user[p], req[p].role)
          /\ created' = [created EXCEPT ![p] = nextId]
          /\ nextId' = nextId + 1
          /\ Called(p, "write", "orgMembership")
          /\ Goto(p, CreateNext("createOrgMembership", req[p], user[p], project[p]))
          /\ UNCHANGED res
  /\ UNCHANGED << projectMemberships, invitations, req, user, project, after >>

\* auditLog({ resourceType: "orgMembership", ... })
AuditOrgMembership(p) ==
  /\ pc[p] = "auditOrgMembership"
  /\ Called(p, "audit", "orgMembership")
  /\ Goto(p, CreateNext("auditOrgMembership", req[p], user[p], project[p]))
  /\ UNCHANGED << stores, nextId, req, user, project, created, res, after >>

\* prisma.projectMembership.create
CreateProjectMembership(p) ==
  /\ pc[p] = "createProjectMembership"
  /\ IF ProjectMembershipKeyTaken(projectMemberships, project[p], user[p])
     THEN /\ Called(p, "rejected", "projectMembership")
          /\ Respond(p, Unhandled)
          /\ UNCHANGED projectMemberships
     ELSE /\ projectMemberships' = projectMembership_create(
               projectMemberships, user[p], project[p], req[p].projectRole, created[p])
          /\ Called(p, "write", "projectMembership")
          /\ Goto(p, CreateNext("createProjectMembership", req[p], user[p], project[p]))
          /\ UNCHANGED res
  /\ UNCHANGED << memberships, invitations, nextId, req, user, project, created, after >>

\* auditLog({ resourceType: "projectMembership", ... })
AuditProjectMembership(p) ==
  /\ pc[p] = "auditProjectMembership"
  /\ Called(p, "audit", "projectMembership")
  /\ Goto(p, CreateNext("auditProjectMembership", req[p], user[p], project[p]))
  /\ UNCHANGED << stores, nextId, req, user, project, created, res, after >>

\* prisma.membershipInvitation.findFirst, then `if (existingInvitation)` 409.
FindInvitation(p) ==
  /\ pc[p] = "findInvitation"
  /\ Called(p, "read", "membershipInvitation")
  /\ IF existingInvitation(invitations, req[p].orgId, req[p].email)
     THEN Respond(p, InvitationExists)
     ELSE /\ Goto(p, CreateNext("findInvitation", req[p], user[p], project[p]))
          /\ UNCHANGED res
  /\ UNCHANGED << stores, nextId, req, user, project, created, after >>

\* prisma.membershipInvitation.create; the store rejects a second row under
\* the invitation's key and the rejection escapes the handler.
CreateInvitation(p) ==
  /\ pc[p] = "createInvitation"
  /\ LET next == membershipInvitation_create(invitations, nextId, req[p].orgId,
                   req[p].email, req[p].role, project[p], req[p].projectRole)
         row == CHOOSE i \in next : i.id = nextId
     IN IF InvitationKeyTaken(invitations, row.orgId, row.email)
        THEN /\ Called(p, "rejected", "membershipInvitation")
             /\ Respond(p, Unhandled)
             /\ UNCHANGED << invitations, nextId, created >>
        ELSE /\ invitations' = next
             /\ created' = [created EXCEPT ![p] = nextId]
             /\ nextId' = nextId + 1
             /\ Called(p, "write", "membershipInvitation")
             /\ Goto(p, CreateNext("createInvitation", req[p], user[p], project[p]))
             /\ UNCHANGED res
  /\ UNCHANGED << memberships, projectMemberships, req, user, project, after >>

\* auditLog({ resourceType: "membershipInvitation", ... })
AuditInvitation(p) ==
  /\ pc[p] = "auditInvitation"
  /\ Called(p, "audit", "membershipInvitation")
  /\ Goto(p, CreateNext("auditInvitation", req[p], user[p], project[p]))
  /\ UNCHANGED << stores, nextId, req, user, project, created, res, after >>

\* A failed send caught and the 200 response returned all the same.
SendOutcome_Swallowed(delivered, usr, role) ==
  IF usr # Null THEN MembershipResponse(usr, role) ELSE InvitationResponse(role)

\* How the handler ends after `await sendMembershipInvitationEmail(...)`: the
\* 200 response of its branch, or the send's exception, which it does not catch.
SendOutcome(delivered, usr, role) ==
  IF ~delivered THEN Unhandled
  ELSE IF usr # Null THEN MembershipResponse(usr, role)
  ELSE InvitationResponse(role)

\* sendMembershipInvitationEmail({ ..., userExists }), then the 200 response
\* of the branch; a failure of the send escapes the handler.
SendEmail(p) ==
  /\ pc[p] = "sendEmail"
  /\ \E delivered \in BOOLEAN :
       /\ Called(p, IF delivered THEN "send" ELSE "sendFailed",
                 IF user[p] # Null THEN "userExists" ELSE "userAbsent")
       /\ Respond(p, SendOutcome(delivered, user[p], req[p].role))
  /\ UNCHANGED << stores, nextId, req, user, project, created, after >>

\* -------------------------------------------------- handleUpdateMembership
UpdateMembershipRequest(p) ==
  \E body \in UpdateBodies(p) : Begin(p, body, UpdateLookups(body))

\* prisma.organizationMembership.upsert, then the 200 response.
UpsertMembership(p) ==
  /\ pc[p] = "upsert"
  /\ memberships' = organizationMembership_upsert(
                      memberships, nextId, req[p].orgId, req[p].userId, req[p].role)
  /\ nextId' = IF orgId_userId(memberships, req[p].orgId, req[p].userId) = {}
               THEN nextId + 1 ELSE nextId
  /\ Called(p, "write", "orgMembership")
  /\ LET row == CHOOSE m \in orgId_userId(memberships', req[p].orgId, req[p].userId) : TRUE
     IN Respond(p, MembershipResponse(row.userId, row.role))
  /\ UNCHANGED << projectMemberships, invitations, req, user, project, created, after >>

\* -------------------------------------------------- handleDeleteMembership
DeleteMembershipRequest(p) ==
  \E body \in DeleteBodies(p) : Begin(p, body, DeleteLookups(body))

\* prisma.organizationMembership.deleteMany, then the 200 response.
DeleteMembership(p) ==
  /\ pc[p] = "deleteMany"
  /\ memberships' = organizationMembership_deleteMany(
                      memberships, req[p].orgId, req[p].userId)
  /\ Called(p, "write", "orgMembership")
  /\ projectMemberships' = projectMembership_onRemoval(
       projectMemberships, orgId_userId(memberships, req[p].orgId, req[p].userId))
  /\ Respond(p, DeletedResponse(req[p].userId))
  /\ UNCHANGED << invitations, nextId, req, user, project, created, after >>

\* ---------------------------------------------------------- specification
Next ==
  \E p \in Procs :
    \/ CreateMembershipRequest(p)
    \/ FindOrgMembership(p)
    \/ CreateOrgMembership(p)
    \/ AuditOrgMembership(p)
    \/ CreateProjectMembership(p)
    \/ AuditProjectMembership(p)
    \/ FindInvitation(p)
    \/ CreateInvitation(p)
    \/ AuditInvitation(p)
    \/ SendEmail(p)
    \/ UpdateMembershipRequest(p)
    \/ UpsertMembership(p)
    \/ DeleteMembershipRequest(p)
    \/ DeleteMembership(p)

Spec == Init /\ [][Next]_vars

\* ======================================================== the properties
\* Vocabulary of the properties, stated on the request and the tables.
Running == {p \in Procs : req[p].op # "none"}

Creates == {p \in Running : req[p].op = "create"}

Finished(p) == pc[p] = "done"

Did(p, kind, what) == \E i \in DOMAIN trace[p] : trace[p][i] = Ev(kind, what)

\* Calls other than store reads: writes (also rejected ones), audit entries
\* and mails (also failed ones).
OnlyReads(p) == \A i \in DOMAIN trace[p] : trace[p][i].kind = "read"

Mails(p) == {i \in DOMAIN trace[p] : trace[p][i].kind \in {"send", "sendFailed"}}

\* The user account an e-mail belongs to, letter case ignored.
AccountsOf(email) == {u \in Users : toLowerCase(u.email) = toLowerCase(email)}

OrgExists(orgId) == \E o \in Organizations : o.id = orgId

LiveProjectOf(projectId, orgId) ==
  \E q \in Projects : q.id = projectId /\ q.orgId = orgId /\ q.deletedAt = Null

\* ------------------------------------------------------------------- C1
\* C1: in every reachable state there is at most one OrganizationMembership
\* row per (orgId, userId) pair, whatever the interleaving of create, upsert
\* and remove requests.
C1_OneMembershipPerPair ==
  \A m1, m2 \in memberships :
    (m1.orgId = m2.orgId /\ m1.userId = m2.userId) => m1 = m2

\* Two requests have written the same pair: an upsert finished on a row that
\* a create made, while another create was turned away by the store.
C1_Witness ==
  /\ \E p \in Procs : Finished(p) /\ req[p].op = "update" /\ res[p].status = 200
  /\ \E p \in Procs : Did(p, "rejected", "orgMembership")
  /\ memberships # {}

\* ------------------------------------------------------------------- C2
\* C2: a createMembership whose membership write loses on the store's
\* uniqueness constraint ends with Conflict(already-a-member).
C2_LoserGetsConflict ==
  \A p, q \in Creates :
    ( /\ p # q
      /\ req[p].orgId = req[q].orgId /\ user[p] = user[q]
      /\ Did(q, "write", "orgMembership")
      /\ Did(p, "rejected", "orgMembership")
      /\ Finished(p) )
    => res[p] = AlreadyMember

\* ------------------------------------------------------------------- C3
\* C3: in every reachable state there is at most one pending
\* MembershipInvitation per (orgId, email) pair, e-mails compared without
\* regard to letter case.
C3_OnePendingInvitationPerPair ==
  \A i1, i2 \in invitations :
    (i1.orgId = i2.orgId /\ toLowerCase(i1.email) = toLowerCase(i2.email)) => i1 = i2

\* Two requests for one e-mail both passed the lookup and both tried to write.
C3_Witness ==
  /\ invitations # {}
  /\ \E p, q \in Creates :
       /\ p # q
       /\ Did(p, "write", "membershipInvitation")
       /\ Did(q, "rejected", "membershipInvitation")

\* ------------------------------------------------------------------- C4
\* C4: every ProjectMembership row has an OrganizationMembership row of the
\* same user in the project's organization.
C4_ProjectMembershipHasOrgMembership ==
  \A pm \in projectMemberships :
    \E m \in memberships, q \in Projects :
      q.id = pm.projectId /\ m.orgId = q.orgId /\ m.userId = pm.userId

\* ------------------------------------------------------------------- C5
\* C5: a createMembership that looks for the membership of its user while the
\* user has one in orgId ends there with Conflict(already-a-member); the step
\* leaves the three tables as they were, and the request has written nothing,
\* recorded no audit entry and sent no mail.
C5_Step(p) ==
  ( /\ p \in Creates
    /\ pc[p] = "findOrgMembership"
    /\ pc'[p] # pc[p]
    /\ \E u \in AccountsOf(req[p].email), m \in memberships :
         m.orgId = req[p].orgId /\ m.userId = u.id )
  => ( /\ pc'[p] = "done"
       /\ res'[p] = AlreadyMember
       /\ stores' = stores
       /\ \A i \in DOMAIN trace'[p] : trace'[p][i].kind = "read" )

C5_AlreadyMemberChangesNothing == [][\A p \in Procs : C5_Step(p)]_vars

\* A create asking for another role than the member has was turned away.
C5_Witness ==
  \E p \in Creates, m \in memberships :
    /\ Finished(p) /\ res[p] = AlreadyMember
    /\ m.orgId = req[p].orgId /\ m.role # req[p].role
    /\ \E u \in AccountsOf(req[p].email) : m.userId = u.id

\* ------------------------------------------------------------------- C6
\* C6: when a createMembership for an e-mail without account has returned
\* PENDING, the same call made again (same orgId, email and project
\* arguments) returns Conflict(invitation-exists), and it creates no
\* invitation, records no audit entry and sends no mail.
C6_Repeats(q, p) ==
  /\ q \in after[p]
  /\ q \in Creates /\ p \in Creates
  /\ Finished(q) /\ res[q].invitation = "PENDING"
  /\ AccountsOf(req[q].email) = {}
  /\ req[p].orgId = req[q].orgId
  /\ req[p].email = req[q].email
  /\ req[p].projectId = req[q].projectId
  /\ req[p].projectRole = req[q].projectRole

C6_SecondInviteConflicts ==
  \A p, q \in Procs :
    C6_Repeats(q, p) =>
      /\ OnlyReads(p)
      /\ Finished(p) => res[p] = InvitationExists

C6_Witness ==
  \E p, q \in Procs :
    C6_Repeats(q, p) /\ Finished(p) /\ res[p] = InvitationExists /\ req[p].role # req[q].role

\* ------------------------------------------------------------------- C7
\* C7: in every createMembership execution an audit entry comes right after
\* the write it describes, and by the time the mail is dispatched every
\* write of the execution has its audit entry right behind it.
C7_AuditOrder(p) ==
  LET t == trace[p] IN
    /\ \A i \in DOMAIN t :
         t[i].kind = "audit" => (i > 1 /\ t[i - 1] = Ev("write", t[i].what))
    /\ \A j \in Mails(p) : \A i \in 1..(j - 1) :
         t[i].kind = "write" => (i + 1 < j /\ t[i + 1] = Ev("audit", t[i].what))

C7_AuditRightAfterWriteBeforeMail == \A p \in Creates : C7_AuditOrder(p)

\* An execution with both writes, both audit entries and the mail.
C7_Witness ==
  \E p \in Creates :
    /\ Did(p, "audit", "orgMembership")
    /\ Did(p, "audit", "projectMembership")
    /\ Did(p, "send", "userExists")

\* ------------------------------------------------------------------- C8
\* C8: a mail with userExists = true is dispatched only after the same
\* execution wrote the OrganizationMembership, and the ProjectMembership when
\* a live project of orgId and a project role other than NONE were given; a
\* mail with userExists = false only after it wrote the MembershipInvitation;
\* no mail follows a rejected write.
C8_WroteBefore(p, j, what) ==
  \E i \in 1..(j - 1) : trace[p][i] = Ev("write", what)

C8_MailOrder(p) ==
  \A j \in Mails(p) :
    /\ trace[p][j].what = "userExists" =>
         /\ C8_WroteBefore(p, j, "orgMembership")
         /\ ( /\ req[p].projectId # Null
              /\ LiveProjectOf(req[p].projectId, req[p].orgId)
              /\ req[p].projectRole \notin {Null, "NONE"} )
            => C8_WroteBefore(p, j, "projectMembership")
    /\ trace[p][j].what = "userAbsent" =>
         C8_WroteBefore(p, j, "membershipInvitation")
    /\ \A i \in 1..(j - 1) : trace[p][i].kind # "rejected"

C8_NoMailWithoutWrite ==
  /\ \A p \in Creates : C8_MailOrder(p)
  /\ \A p \in Running \ Creates : Mails(p) = {}

\* A mail went out in each branch, and a rejected write ended an execution.
C8_Witness ==
  /\ \E p \in Creates : Did(p, "send", "userAbsent")
  /\ \E p \in Creates :
       Did(p, "rejected", "projectMembership") \/ Did(p, "send", "userExists")

\* ------------------------------------------------------------------- C9
\* C9: a createMembership whose organization is absent, or whose projectId
\* does not name a live project of orgId, and an upsertMembership whose
\* userId is unknown, return their NotFound error having made no call but
\* store reads.
C9_Expected(p) ==
  IF req[p].op = "update" THEN UserNotFound
  ELSE IF ~OrgExists(req[p].orgId) THEN OrgNotFound
  ELSE ProjectNotFound

C9_Unresolved(p) ==
  \/ /\ req[p].op = "create"
     /\ CreateMembershipSchema(req[p])
     /\ \/ ~OrgExists(req[p].orgId)
        \/ req[p].projectId # Null /\ ~LiveProjectOf(req[p].projectId, req[p].orgId)
  \/ /\ req[p].op = "update"
     /\ MembershipSchema(req[p])
     /\ \A u \in Users : u.id # req[p].userId

C9_NotFoundWritesNothing ==
  \A p \in Running :
    C9_Unresolved(p) =>
      /\ OnlyReads(p)
      /\ Finished(p)
      /\ res[p] = C9_Expected(p)

\* A soft-deleted project was asked for while the organization had a member.
C9_Witness ==
  \E p \in Creates :
    /\ Finished(p) /\ res[p] = ProjectNotFound
    /\ req[p].projectId = "p2"
    /\ memberships # {}

\* ------------------------------------------------------------------ C10
\* C10: a request with a malformed body (invalid e-mail, unrecognized role
\* or project role, missing userId) returns ValidationError having made no
\* call at all: no store read, no store write, no audit, no mail.
C10_Malformed(body) ==
  CASE body.op = "create" ->
         \/ ~IsEmail(body.email)
         \/ body.role \notin Role
         \/ body.projectRole # Null /\ body.projectRole \notin Role
    [] body.op = "update" -> body.userId = Null \/ body.role \notin Role
    [] body.op = "delete" -> body.userId = Null
    [] OTHER -> FALSE

C10_ValidationPrecedesAll ==
  \A p \in Running :
    C10_Malformed(req[p]) =>
      /\ trace[p] = <<>>
      /\ Finished(p)
      /\ res[p] = ValidationError

\* A create with an unrecognized role was refused while another request ran.
C10_Witness ==
  \E p \in Creates, q \in Procs :
    /\ res[p] = ValidationError /\ req[p].role \notin Role /\ IsEmail(req[p].email)
    /\ q # p /\ ~Free(q)


\* ------------------------------------------------------------------ C11
\* C11: a createMembership writes (or tries to write) a ProjectMembership
\* only when its projectId names a live project of its organization and its
\* projectRole is present and not NONE; every ProjectMembership row is for a
\* live project and carries a role other than NONE.
C11_PairSupplied(body) ==
  /\ body.projectId # Null
  /\ LiveProjectOf(body.projectId, body.orgId)
  /\ body.projectRole \in Role \ {"NONE"}

C11_ProjectRoleOnlyWhenSupplied ==
  /\ \A p \in Creates :
       ( \/ Did(p, "write", "projectMembership")
         \/ Did(p, "rejected", "projectMembership") ) => C11_PairSupplied(req[p])
  /\ \A pm \in projectMemberships :
       /\ pm.role \in Role \ {"NONE"}
       /\ \E q \in Projects : q.id = pm.projectId /\ q.deletedAt = Null

\* A create for the user with project p1 and projectRole NONE, and one with
\* p1 and no projectRole, each succeeded with no ProjectMembership row.
C11_Witness ==
  \E p \in Creates :
    /\ Finished(p) /\ res[p].status = 200 /\ res[p].userId # Null
    /\ req[p].projectId = "p1" /\ req[p].projectRole \in {Null, "NONE"}
    /\ projectMemberships = {}


\* ------------------------------------------------------------------ C12
\* Vocabulary of the functional properties.
Count(p, kinds) ==
  Cardinality({i \in DOMAIN trace[p] : trace[p][i].kind \in kinds})

\* The request has what its handler needs: a well-formed body, an existing
\* organization and, if a projectId is given, a live project of it.
Resolvable(body) ==
  /\ C10_Malformed(body) = FALSE
  /\ OrgExists(body.orgId)
  /\ body.projectId # Null => LiveProjectOf(body.projectId, body.orgId)

InvitationsFor(orgId, email) ==
  {i \in invitations : i.orgId = orgId /\ toLowerCase(i.email) = toLowerCase(email)}

\* C12: a finished createMembership with resolvable arguments, for an e-mail
\* without account and with no invitation but its own, whose mail the gateway
\* delivered, has answered PENDING with the requested role, created exactly
\* one MembershipInvitation (the only one of its (orgId, email), carrying the
\* role), recorded exactly one audit entry and sent exactly one mail, with
\* userExists = false.
C12_Case(p) ==
  /\ p \in Creates
  /\ Finished(p)
  /\ Resolvable(req[p])
  /\ AccountsOf(req[p].email) = {}
  /\ \A i \in InvitationsFor(req[p].orgId, req[p].email) : i.id = created[p]
  /\ ~Did(p, "sendFailed", "userAbsent")

C12_NewUserGetsOneInvitation ==
  \A p \in Procs :
    C12_Case(p) =>
      /\ res[p] = InvitationResponse(req[p].role)
      /\ Cardinality(InvitationsFor(req[p].orgId, req[p].email)) = 1
      /\ \A i \in InvitationsFor(req[p].orgId, req[p].email) : i.orgRole = req[p].role
      /\ Count(p, {"write"}) = 1 /\ Did(p, "write", "membershipInvitation")
      /\ Count(p, {"audit"}) = 1 /\ Did(p, "audit", "membershipInvitation")
      /\ Count(p, {"send"}) = 1 /\ Did(p, "send", "userAbsent")
      /\ Count(p, {"rejected", "sendFailed"}) = 0

\* An invitation with a project role was made while the other slot had
\* finished a request of its own.
C12_Witness ==
  \E p \in Procs :
    /\ C12_Case(p)
    /\ req[p].projectRole = "MEMBER"
    /\ \E q \in Procs \ {p} : Finished(q) /\ q \notin after[p]


\* ------------------------------------------------------------------ C13
\* No other request has run since p began.
Alone(p) == \A q \in Procs \ {p} : q \in after[p] \/ pc[q] = "idle"

MembershipsOf(orgId, userId) ==
  {m \in memberships : m.orgId = orgId /\ m.userId = userId}

ProjectMembershipsOf(orgId, userId) ==
  {pm \in projectMemberships :
     pm.userId = userId /\ \E q \in Projects : q.id = pm.projectId /\ q.orgId = orgId}

\* C13: a finished createMembership with resolvable arguments, run on its
\* own for the e-mail of a user who had no membership in orgId (of the
\* organization or of its projects), whose mail the gateway delivered, has
\* answered with the user and the requested role, created exactly one
\* OrganizationMembership with that role, recorded one audit entry for it and
\* sent exactly one mail, with userExists = true; without a live project and
\* a project role other than NONE it created no ProjectMembership and
\* recorded no second audit entry, with them it created one and recorded one.
C13_Case(p, u) ==
  /\ p \in Creates
  /\ Finished(p)
  /\ Alone(p)
  /\ Resolvable(req[p])
  /\ u \in AccountsOf(req[p].email)
  /\ \A m \in MembershipsOf(req[p].orgId, u.id) : m.id = created[p]
  /\ \A pm \in ProjectMembershipsOf(req[p].orgId, u.id) : pm.orgMembershipId = created[p]
  /\ ~Did(p, "sendFailed", "userExists")

C13_Produced(p, u) ==
  LET pair == C11_PairSupplied(req[p]) IN
    /\ res[p] = MembershipResponse(u.id, req[p].role)
    /\ Cardinality(MembershipsOf(req[p].orgId, u.id)) = 1
    /\ \A m \in MembershipsOf(req[p].orgId, u.id) : m.role = req[p].role
    /\ Cardinality({i \in DOMAIN trace[p] : trace[p][i] = Ev("write", "orgMembership")}) = 1
    /\ Cardinality({i \in DOMAIN trace[p] : trace[p][i] = Ev("audit", "orgMembership")}) = 1
    /\ Count(p, {"send"}) = 1 /\ Did(p, "send", "userExists")
    /\ Count(p, {"rejected", "sendFailed"}) = 0
    /\ Cardinality(ProjectMembershipsOf(req[p].orgId, u.id)) = IF pair THEN 1 ELSE 0
    /\ Count(p, {"write"}) = IF pair THEN 2 ELSE 1
    /\ Count(p, {"audit"}) = IF pair THEN 2 ELSE 1
    /\ \A pm \in ProjectMembershipsOf(req[p].orgId, u.id) :
         pm.projectId = req[p].projectId /\ pm.role = req[p].projectRole

C13_ExistingUserGetsOneMembership ==
  \A p \in Procs, u \in Users : C13_Case(p, u) => C13_Produced(p, u)

\* The user was added as ADMIN under a differently spelled e-mail, with a
\* project role named but no project, after an earlier removal.
C13_Witness ==
  \E p \in Procs, u \in Users :
    /\ C13_Case(p, u)
    /\ req[p].role = "ADMIN"
    /\ req[p].email # u.email
    /\ req[p].projectId = Null /\ req[p].projectRole = "MEMBER"
    /\ \E q \in after[p] : req[q].op = "delete"


\* ------------------------------------------------------------------ C14
\* C14: the upsert step of an upsertMembership for an existing user leaves
\* exactly one row for (orgId, userId), whose role is the call's argument; it
\* makes the row when there was none, keeps the row's id when there was one,
\* touches no row of another pair and answers with the user and that role.
C14_Step(p) ==
  (pc[p] = "upsert" /\ pc'[p] = "done") =>
    LET before == MembershipsOf(req[p].orgId, req[p].userId)
        others == memberships \ before
        now == {m \in memberships' : m.orgId = req[p].orgId /\ m.userId = req[p].userId}
    IN /\ Cardinality(now) = 1
       /\ \A m \in now : m.role = req[p].role
       /\ \A m \in now : \A b \in before : m.id = b.id
       /\ memberships' \ now = others
       /\ res'[p] = MembershipResponse(req[p].userId, req[p].role)

C14_UpsertIsIdempotent == [][\A p \in Procs : C14_Step(p)]_vars

\* Two upserts of the same user in a row, with different roles: one row,
\* with the role of the second.
C14_Witness ==
  \E p \in Procs, q \in Procs :
    /\ q \in after[p]
    /\ Finished(p) /\ req[p].op = "update" /\ res[p].status = 200
    /\ req[q].op = "update" /\ res[q].status = 200
    /\ req[q].userId = req[p].userId /\ req[q].role # req[p].role
    /\ Cardinality(memberships) = 1
    /\ \A m \in memberships : m.role = req[p].role /\ m.userId = req[p].userId


\* ------------------------------------------------------------------ C15
\* C15: no step of an upsertMembership, whatever its outcome, changes the
\* invitations or the project memberships, and the request never records an
\* audit entry nor dispatches a mail.
C15_StepOf(p) ==
  << pc[p], req[p], res[p], trace[p] >>' # << pc[p], req[p], res[p], trace[p] >>

C15_Step(p) ==
  (req'[p].op = "update" /\ C15_StepOf(p)) =>
    /\ invitations' = invitations
    /\ projectMemberships' = projectMemberships
    /\ \A i \in DOMAIN trace'[p] :
         trace'[p][i].kind \notin {"audit", "send", "sendFailed"}

C15_UpsertHasNoSideEffects == [][\A p \in Procs : C15_Step(p)]_vars

\* An upsert made a membership, another changed its role, one found no user
\* and one was malformed, while invitations and project memberships existed.
C15_Witness ==
  \E p \in Procs :
    /\ Finished(p) /\ req[p].op = "update" /\ res[p].status = 200
    /\ invitations # {} /\ projectMemberships # {}
    /\ \E m \in memberships : m.userId = req[p].userId /\ m.id = nextId - 1


\* ------------------------------------------------------------------ C16
\* C16: a removeMembership with a userId never answers with an error; the
\* step that answers gives the same success response whether or not a
\* membership of (orgId, userId) existed, leaves no OrganizationMembership of
\* that pair and touches no other row; when no such membership existed (as
\* at a second call) it changes no store at all.
C16_Step(p) ==
  /\ ( /\ req'[p].op = "delete" /\ req'[p].userId # Null
       /\ pc'[p] = "done" /\ pc[p] # "done" )
     => /\ pc[p] = "deleteMany"
        /\ res'[p] = DeletedResponse(req'[p].userId)
  /\ (pc[p] = "deleteMany" /\ pc'[p] = "done")
     => /\ {m \in memberships' : m.orgId = req[p].orgId /\ m.userId = req[p].userId} = {}
        /\ memberships \ memberships' = MembershipsOf(req[p].orgId, req[p].userId)
        /\ memberships' \subseteq memberships
        /\ invitations' = invitations
        /\ projectMemberships' = projectMemberships
        /\ MembershipsOf(req[p].orgId, req[p].userId) = {} => stores' = stores

C16_RemoveIsIdempotent == [][\A p \in Procs : C16_Step(p)]_vars

\* Two removals of the same user answered one after the other, both with
\* the success response, after a membership had been made: none is left.
C16_Witness ==
  \E p \in Procs : \E q \in after[p] :
    /\ Finished(p) /\ Finished(q)
    /\ req[p].op = "delete" /\ req[q].op = "delete"
    /\ req[p].userId = "u1" /\ req[q].userId = "u1"
    /\ res[p] = res[q] /\ res[p].status = 200
    /\ nextId > 1 /\ memberships = {} /\ invitations = {} /\ projectMemberships = {}


\* ------------------------------------------------------------------ C17
\* The two e-mails differ, and only in the case of their letters.
C17_DifferInCaseOnly(e, f) ==
  /\ e # f
  /\ Len(e) = Len(f)
  /\ \A i \in 1..Len(e) : LowerChar(e[i]) = LowerChar(f[i])

\* q is a createMembership that made a membership or an invitation which is
\* still stored; p is a resolvable createMembership begun after q had
\* answered, for the same organization and for q's e-mail in another case.
C17_Second(q, p) ==
  /\ q \in after[p]
  /\ q \in Creates /\ p \in Creates
  /\ Finished(q) /\ created[q] # 0
  /\ \/ \E m \in memberships : m.id = created[q]
     \/ \E i \in invitations : i.id = created[q]
  /\ req[p].orgId = req[q].orgId
  /\ C17_DifferInCaseOnly(req[p].email, req[q].email)
  /\ Resolvable(req[p])

\* C17: a createMembership for an e-mail that differs only in letter case
\* from the e-mail of an earlier createMembership of the same organization,
\* whose membership or invitation is still stored, resolves the same user,
\* writes nothing and answers with the conflict of the earlier row.
C17_EmailCaseIsIgnored ==
  \A p, q \in Procs :
    C17_Second(q, p) =>
      /\ user[p] = user[q]
      /\ OnlyReads(p)
      /\ created[p] = 0
      /\ Finished(p) =>
           res[p] = IF user[q] # Null THEN AlreadyMember ELSE InvitationExists

\* A@x was refused as already a member after a@x had been made a member.
C17_Witness ==
  \E p, q \in Procs :
    /\ C17_Second(q, p) /\ Finished(p)
    /\ req[p].email = <<"A", "@", "x">>
    /\ res[p] = AlreadyMember


\* ------------------------------------------------------------------ C18
\* C18: every MembershipInvitation row has projectId and projectRole both
\* null or both non-null; non-null, they name a live project of the row's
\* organization and a role other than NONE, and they are the projectId and
\* projectRole of the createMembership that wrote the row.
C18_InvitationProjectPairing ==
  /\ \A i \in invitations :
       /\ i.projectId = Null <=> i.projectRole = Null
       /\ i.projectId # Null =>
            /\ LiveProjectOf(i.projectId, i.orgId)
            /\ i.projectRole \in Role \ {"NONE"}
  /\ \A p \in Creates : \A i \in invitations :
       (i.id = created[p] /\ i.projectId # Null) =>
         /\ C11_PairSupplied(req[p])
         /\ i.projectId = req[p].projectId
         /\ i.projectRole = req[p].projectRole
         /\ i.orgId = req[p].orgId

\* An invitation asked for with project p1 and projectRole NONE was written
\* with neither.
C18_Witness ==
  \E p \in Creates : \E i \in invitations :
    /\ i.id = created[p]
    /\ req[p].projectId = "p1" /\ req[p].projectRole = "NONE"
    /\ i.projectId = Null /\ i.projectRole = Null


\* ------------------------------------------------------------------ C19
\* The request's organization is absent, or its projectId does not resolve
\* to a live project of the organization.
C19_Unresolved(body) ==
  \/ ~OrgExists(body.orgId)
  \/ body.projectId # Null /\ ~LiveProjectOf(body.projectId, body.orgId)

C19_At(p, kind, what) == {i \in DOMAIN trace[p] : trace[p][i] = Ev(kind, what)}

\* C19 as stated: the lookups of a createMembership come in the order
\* organization, project, user, and the user is never looked up for a
\* request whose organization is absent or whose projectId does not resolve.
C19_UserLookedUpLast ==
  \A p \in Creates :
    /\ \A i \in C19_At(p, "read", "user") :
         /\ \A j \in C19_At(p, "read", "organization") : j < i
         /\ \A j \in C19_At(p, "read", "project") : j < i
    /\ C19_Unresolved(req[p]) => C19_At(p, "read", "user") = {}

\* C19, amended: every well-formed createMembership looks up the user first,
\* then the organization, then (if a projectId is given and the organization
\* exists) the project, each once; the project is never looked up for an
\* absent organization, and a request whose organization is absent or whose
\* projectId does not resolve makes no further call.
C19_UserLookedUpFirst ==
  \A p \in Creates :
    ~C10_Malformed(req[p]) =>
      /\ Len(trace[p]) >= 2
      /\ trace[p][1] = Ev("read", "user")
      /\ trace[p][2] = Ev("read", "organization")
      /\ C19_At(p, "read", "user") = {1}
      /\ C19_At(p, "read", "organization") = {2}
      /\ C19_At(p, "read", "project") =
           IF OrgExists(req[p].orgId) /\ req[p].projectId # Null THEN {3} ELSE {}
      /\ C19_Unresolved(req[p]) =>
           Len(trace[p]) = IF OrgExists(req[p].orgId) THEN 3 ELSE 2

\* A request for the absent organization o9 with project p1 looked up the
\* user, then the organization, and was answered not found.
C19_Witness ==
  \E p \in Creates :
    /\ Finished(p) /\ res[p] = OrgNotFound
    /\ req[p].projectId = "p1"
    /\ trace[p] = << Ev("read", "user"), Ev("read", "organization") >>


\* ------------------------------------------------------------------ C20
\* The step of p in which the notification send fails.
C20_SendFails(p) ==
  /\ pc[p] = "sendEmail"
  /\ Len(trace'[p]) = Len(trace[p]) + 1
  /\ trace'[p][Len(trace'[p])].kind = "sendFailed"

\* C20: when the notification send of a createMembership fails, the request
\* ends there without a success response, the send having been attempted
\* once; the stores are as they were, so the membership or invitation the
\* request wrote is still stored unless another request had removed it, and
\* the audit entries it recorded remain.
C20_Step(p) ==
  C20_SendFails(p) =>
    /\ pc'[p] = "done"
    /\ res'[p].status # 200
    /\ stores' = stores
    /\ created'[p] = created[p] /\ created[p] # 0
    /\ \A m \in memberships : m.id = created[p] => m \in memberships'
    /\ \A i \in invitations : i.id = created[p] => i \in invitations'
    /\ SubSeq(trace'[p], 1, Len(trace[p])) = trace[p]
    /\ \E i \in DOMAIN trace[p] : trace[p][i].kind = "audit"
    /\ Cardinality({i \in DOMAIN trace'[p] :
                      trace'[p][i].kind \in {"send", "sendFailed"}}) = 1

C20_SendFailurePropagates == [][\A p \in Procs : C20_Step(p)]_vars

\* A createMembership ended in failure on its send, its membership with the
\* project membership, or its invitation, written and audited.
C20_Witness ==
  \E p \in Creates :
    /\ Finished(p) /\ res[p] = Unhandled
    /\ Count(p, {"sendFailed"}) = 1 /\ Count(p, {"send"}) = 0
    /\ Count(p, {"audit"}) >= 1
    /\ \/ \E m \in memberships : m.id = created[p]
       \/ \E i \in invitations : i.id = created[p]

====
